---- MODULE Spec2Model ----
(***************************************************************************)
(* A model of src/bot.py: the cooldown-gated slash-command pipeline that   *)
(* runs on the bot's event loop, the weather handler with its cache and    *)
(* its timeout, the gateway events, the operator console thread with its   *)
(* cross-thread submissions, the signal-driven shutdown and the broadcast  *)
(* coroutine.                                                              *)
(***************************************************************************)
EXTENDS Integers, Sequences, FiniteSets, TLC

VARIABLES
    cooldowns,      \* per command (one dict per decorated handler, line 117): user -> time of last recorded call
    lastAllowed,    \* history: per (command, user) the clock reading of the last invocation the gate let through
    sessions,       \* the interactions in flight, one per task slot of the bot loop
    clock,          \* the last value time.time() returned (line 122)
    weather_cache,  \* the dict of line 76: lower-cased city -> <<message, time stored with it>>
    apikey,         \* the module-level apikey of line 202, read once from apikey.txt
    start_time,     \* bot.start_time (line 408): <<>> until on_ready sets it, then <<t>>
    readyEvents,    \* history: ready events delivered to on_ready
    syncing,        \* on_ready and on_guild_join tasks suspended in bot.tree.sync, by scope
    syncLog,        \* history: every finished bot.tree.sync call as <<scope, succeeded>>
    mainPc,         \* the main thread: "start", "running" (inside bot.run), "exited"
    exitCode,       \* <<>> while the process lives, <<n>> once it exited with code n
    is_shutting_down, \* the module-level flag of line 73
    botClosed,      \* bot.is_closed()
    consolePc,      \* the console thread: "off", "init", "prompt", "blocked", "dead"
    console_loop,   \* BotConsole.loop (line 474, set by start_console)
    loopRunning,    \* per event loop: some thread is running it
    loopTasks,      \* per event loop: the coroutines submitted to it and not finished
    guilds,         \* bot.guilds: the joined guilds, each with its text channels
    signalCount,    \* history: termination signals delivered to signal_handler
    closeScheduled, \* history: the loops shutdown_bot was submitted to, in order
    lastAccess,     \* history: the last read of connection or guild state, <<action, thread>>
    attempted,      \* history: <<position of the guild, fault>> of every pass of the running or last broadcast
    printed         \* the last line the console printed

botVars == <<cooldowns, lastAllowed, sessions, clock, weather_cache, apikey>>
gwVars == <<start_time, readyEvents, syncing, syncLog>>
opsVars == <<mainPc, exitCode, is_shutting_down, botClosed, consolePc, console_loop,
             loopRunning, loopTasks, guilds, signalCount, closeScheduled, lastAccess,
             attempted, printed>>
vars == <<botVars, gwVars, opsVars>>

----------------------------------------------------------------------------
(* Bounds and program constants *)

\* Largest clock reading, in seconds, of the cooldown tracker's runs.
MaxTime == 4
\* Number of interactions the bot loop has in flight at once.
MaxTasks == 2
\* Largest clock reading of the runs with several interactions in flight.
MaxDispatchTime == 1

\* COMMAND_COOLDOWN_SECONDS, the default of the COMMAND_COOLDOWN environment variable.
COMMAND_COOLDOWN_SECONDS == 3

\* WEATHER_API_CACHE_MINUTES, the default of the environment variable of that name.
WEATHER_API_CACHE_MINUTES == 30
\* timedelta(minutes=WEATHER_API_CACHE_MINUTES) of line 222, in the seconds of the clock.
CacheTTL == WEATHER_API_CACHE_MINUTES * 60
\* The seconds asyncio.timeout waits for the weather service (line 230).
LookupTimeout == 10

\* Guilds the bot has joined, and text channels of a guild.
MaxGuilds == 2
MaxChannels == 2
\* Cache lifetimes the clock of the weather runs spans.
MaxPeriods == 1
\* Ready events the gateway delivers in one run.
MaxReady == 2

Slots == 1..MaxTasks
Users == {"u1", "u2"}
\* pong stands for the handlers that log and reply once (help, utctime, timezones, pong).
Commands == {"pong", "ping"}
AllCommands == Commands \cup {"weather"}
\* The city names users type: two spellings of one city, and another city.
Cities == {"London", "london", "Paris"}
None == "None"

----------------------------------------------------------------------------
(* Cooldown decorator, lines 115-136 *)

\* A single dict shared by every decorated command.
DictShared(cd, c) == cd["pong"]

\* The dict `cooldowns` of the decorator instance wrapping command c (line 117):
\* every @cooldown() application creates its own.
Dict(cd, c) == cd[c]

\* The test with <= for <.
OnCooldownInclusive(cd, c, u, now, seconds) ==
    /\ u \in DOMAIN Dict(cd, c)
    /\ now - Dict(cd, c)[u] <= seconds

\* The test taking a reading older than the stored one for an elapsed window.
OnCooldownNonNegative(cd, c, u, now, seconds) ==
    /\ u \in DOMAIN Dict(cd, c)
    /\ 0 <= now - Dict(cd, c)[u]
    /\ now - Dict(cd, c)[u] < seconds

\* The test of line 124.
OnCooldown(cd, c, u, now, seconds) ==
    /\ u \in DOMAIN Dict(cd, c)
    /\ now - Dict(cd, c)[u] < seconds

\* remaining of line 125.
Remaining(cd, c, u, now, seconds) == seconds - (now - Dict(cd, c)[u])

\* The entry written before the test instead of after it.
CooldownsAfterAlways(cd, c, u, now, seconds) == [cd EXCEPT ![c] = (u :> now) @@ @]

\* The dicts after the wrapper ran: untouched on the early return of line 130,
\* cooldowns[user_id] = current_time (line 132) otherwise.
CooldownsAfter(cd, c, u, now, seconds) ==
    IF OnCooldown(cd, c, u, now, seconds)
    THEN cd
    ELSE [cd EXCEPT ![c] = (u :> now) @@ @]

----------------------------------------------------------------------------
(* Interaction sessions: one inbound command invocation each *)

Msg(text, ephemeral, via) == [text |-> text, ephemeral |-> ephemeral, via |-> via]

\* city is the argument of weather; now is the current_time the weather handler
\* read (line 217); msg is the reply the task is about to send; calls counts the
\* requests to the weather service; latency and outcome are how long its request
\* took and how it ended; failed says that an exception left the handler and
\* reached on_app_command_error; logged says that log_command wrote the
\* invocation to the command log; cache_read says that the handler looked its
\* city up in weather_cache.
IdleSession ==
    [user |-> None, cmd |-> None, pc |-> "idle", responded |-> FALSE,
     sent |-> <<>>, edited |-> FALSE, remaining |-> 0,
     city |-> None, now |-> 0, msg |-> Msg(None, FALSE, "response"),
     calls |-> 0, latency |-> 0, outcome |-> None, failed |-> FALSE,
     logged |-> FALSE, cache_read |-> FALSE]

\* A successful interaction.response.send_message: the reply is shown and
\* interaction.response.is_done() is true from then on.
Respond(s, text, ephemeral) ==
    [s EXCEPT !.responded = TRUE, !.sent = Append(@, Msg(text, ephemeral, "response"))]

\* The error handler sending the initial reply whether or not one was sent.
on_app_command_error_unchecked(s) ==
    [s EXCEPT !.pc = "err_reply", !.failed = TRUE]

\* on_app_command_error up to its await (lines 421-445): the branch of line 442
\* is taken on interaction.response.is_done().
on_app_command_error(s) ==
    [s EXCEPT !.pc = IF s.responded THEN "err_followup" ELSE "err_reply",
              !.failed = TRUE]

\* The first reply each handler sends (lines 152, 161, 199, 341 and 351).
FirstReply(c) == IF c = "ping" THEN "Pinging..." ELSE "Ping"

----------------------------------------------------------------------------
(* Weather handler and its cache, lines 202-266 *)

\* str.lower left out of the cache key.
LowerIdentity(city) == city

\* city.lower() of line 216 on the city names the users type.
Lower(city) ==
    IF city = "London" THEN "london"
    ELSE IF city = "Paris" THEN "paris"
    ELSE city

\* The name the weather service returns for the city asked (data['name'], line 241).
ProviderName(city) == IF Lower(city) = "london" THEN "London" ELSE "Paris"

\* weather_message of lines 244-249.
WeatherMessage(name, description) ==
    IF name = "London"
    THEN (IF description = "Clouds" THEN "Weather in London, GB: Clouds"
                                    ELSE "Weather in London, GB: Rain")
    ELSE (IF description = "Clouds" THEN "Weather in Paris, FR: Clouds"
                                    ELSE "Weather in Paris, FR: Rain")

NotConfiguredText == "Weather API is not configured."
CityNotFoundText == "City not found. Please check the city name."
GenericErrorText == "An error occurred while fetching weather data."
TimeoutText == "The weather service is taking too long to respond."

\* The entry served up to and including the moment it is ttl old.
CacheGetInclusive(cache, key, now, ttl) ==
    IF key \in DOMAIN cache /\ now - cache[key][2] <= ttl
    THEN cache[key][1]
    ELSE None

\* The lookup of lines 219-224: the stored message while the entry is less than
\* ttl old, None otherwise.
CacheGet(cache, key, now, ttl) ==
    IF key \in DOMAIN cache /\ now - cache[key][2] < ttl
    THEN cache[key][1]
    ELSE None

\* weather_cache[cache_key] = (weather_message, current_time), line 252.
CachePut(cache, key, v, now) == (key :> <<v, now>>) @@ cache

\* How a request to the weather service ends: after latency seconds, with a
\* status and a body, or with an exception of requests.get. A 200 body either
\* holds every field lines 234-242 read or lacks one of them.
LookupKinds == {"200", "200_malformed", "404", "500", "raise"}
Descriptions == {"Clouds", "Rain"}
Latencies == {LookupTimeout - 1, LookupTimeout + 1}
LookupResults == [latency : Latencies, kind : LookupKinds, description : Descriptions]

\* asyncio.timeout(10) of line 230 expired before requests.get returned.
TimedOut(r) == r.latency >= LookupTimeout

\* What the handler observed of its request: the timeout, or the result's kind.
Outcome(r) == IF TimedOut(r) THEN "timeout" ELSE r.kind

\* The cache also written for a city the service does not know.
CacheAfterNegative(cache, s, r) ==
    IF Outcome(r) = "200"
    THEN CachePut(cache, Lower(s.city), WeatherMessage(ProviderName(s.city), r.description), s.now)
    ELSE IF Outcome(r) = "404"
    THEN CachePut(cache, Lower(s.city), CityNotFoundText, s.now)
    ELSE cache

\* The cache once the request of session s has ended with r: line 252 is reached
\* on a 200 whose body had every field, and on nothing else.
CacheAfter(cache, s, r) ==
    IF Outcome(r) = "200"
    THEN CachePut(cache, Lower(s.city), WeatherMessage(ProviderName(s.city), r.description), s.now)
    ELSE cache

\* The timeout handled by the generic except clause.
ReplyAfterGeneric(s, r) ==
    IF Outcome(r) = "200"
    THEN [pc |-> "try_reply",
          msg |-> Msg(WeatherMessage(ProviderName(s.city), r.description), FALSE, "response")]
    ELSE IF Outcome(r) = "404"
    THEN [pc |-> "try_reply", msg |-> Msg(CityNotFoundText, TRUE, "response")]
    ELSE IF Outcome(r) = "500"
    THEN [pc |-> "try_reply", msg |-> Msg(GenericErrorText, TRUE, "response")]
    ELSE [pc |-> "except_reply", msg |-> Msg(GenericErrorText, TRUE, "response")]

\* The reply the handler goes on to send once its request has ended with r, and
\* where it sends it: inside the try block (lines 254, 257 and 260) or inside an
\* except clause (lines 263 and 266). A missing field raises KeyError and
\* requests.get raises its own exceptions: both reach line 264.
ReplyAfter(s, r) ==
    IF Outcome(r) = "timeout"
    THEN [pc |-> "except_reply", msg |-> Msg(TimeoutText, TRUE, "response")]
    ELSE IF Outcome(r) = "200"
    THEN [pc |-> "try_reply",
          msg |-> Msg(WeatherMessage(ProviderName(s.city), r.description), FALSE, "response")]
    ELSE IF Outcome(r) = "404"
    THEN [pc |-> "try_reply", msg |-> Msg(CityNotFoundText, TRUE, "response")]
    ELSE IF Outcome(r) = "500"
    THEN [pc |-> "try_reply", msg |-> Msg(GenericErrorText, TRUE, "response")]
    ELSE [pc |-> "except_reply", msg |-> Msg(GenericErrorText, TRUE, "response")]

\* weather up to its first await on the network, lines 209-231, entered at clock
\* reading t with cache and key: the not-configured reply, the cached reply, or
\* the request to the weather service.
weather(s, t, cache, key) ==
    IF key = None
    THEN [s EXCEPT !.pc = "reply", !.msg = Msg(NotConfiguredText, TRUE, "response")]
    ELSE IF CacheGet(cache, Lower(s.city), t, CacheTTL) # None
    THEN [s EXCEPT !.pc = "reply", !.now = t, !.cache_read = TRUE,
                   !.msg = Msg(CacheGet(cache, Lower(s.city), t, CacheTTL), FALSE, "response")]
    ELSE [s EXCEPT !.pc = "lookup", !.now = t, !.cache_read = TRUE, !.calls = @ + 1]

\* The handler of the session's command up to its first await on the network:
\* log_command (lines 80-93, the first statement of every handler) writes the
\* log entry without suspending, then the handler's own code runs.
HandlerEntry(s, t, cache, key) ==
    IF s.cmd = "weather"
    THEN weather([s EXCEPT !.logged = TRUE], t, cache, key)
    ELSE [s EXCEPT !.logged = TRUE, !.pc = "reply",
                   !.msg = Msg(FirstReply(s.cmd), FALSE, "response")]

\* The arguments an invocation of command c carries.
CityArgs(c) == IF c = "weather" THEN Cities ELSE {None}

----------------------------------------------------------------------------
(* The tasks of the bot loop, one step per await *)

\* The wrapper suspended between its test and its write: the entry is not yet
\* recorded when the next task of the loop runs.
wrapper_record_later(i, u, c, t) ==
    /\ sessions[i].pc \in {"idle", "done"}
    /\ clock' = t
    /\ UNCHANGED <<cooldowns, weather_cache, apikey, gwVars, opsVars>>
    /\ IF OnCooldown(cooldowns, c, u, t, COMMAND_COOLDOWN_SECONDS)
       THEN /\ sessions' = [sessions EXCEPT ![i] =
                   [IdleSession EXCEPT !.user = u, !.cmd = c, !.pc = "deny_reply",
                       !.remaining = Remaining(cooldowns, c, u, t, COMMAND_COOLDOWN_SECONDS)]]
            /\ lastAllowed' = lastAllowed
       ELSE /\ \E city \in CityArgs(c) :
                sessions' = [sessions EXCEPT ![i] =
                   HandlerEntry([IdleSession EXCEPT !.user = u, !.cmd = c, !.city = city],
                                t, weather_cache, apikey)]
            /\ lastAllowed' = [lastAllowed EXCEPT ![c] = (u :> t) @@ @]

\* The wrapper writing the command log before its test.
wrapper_logs_first(i, u, c, t) ==
    /\ sessions[i].pc \in {"idle", "done"}
    /\ clock' = t
    /\ cooldowns' = CooldownsAfter(cooldowns, c, u, t, COMMAND_COOLDOWN_SECONDS)
    /\ UNCHANGED <<weather_cache, apikey, gwVars, opsVars>>
    /\ IF OnCooldown(cooldowns, c, u, t, COMMAND_COOLDOWN_SECONDS)
       THEN /\ sessions' = [sessions EXCEPT ![i] =
                   [IdleSession EXCEPT !.user = u, !.cmd = c, !.pc = "deny_reply",
                       !.logged = TRUE,
                       !.remaining = Remaining(cooldowns, c, u, t, COMMAND_COOLDOWN_SECONDS)]]
            /\ lastAllowed' = lastAllowed
       ELSE /\ \E city \in CityArgs(c) :
                sessions' = [sessions EXCEPT ![i] =
                   HandlerEntry([IdleSession EXCEPT !.user = u, !.cmd = c, !.city = city],
                                t, weather_cache, apikey)]
            /\ lastAllowed' = [lastAllowed EXCEPT ![c] = (u :> t) @@ @]

\* Task start, lines 120-133: the gate, and for an allowed invocation the handler
\* up to its first await on the network. Nothing suspends between the test of
\* line 124 and the write of line 132.
wrapper(i, u, c, t) ==
    /\ sessions[i].pc \in {"idle", "done"}
    /\ clock' = t
    /\ cooldowns' = CooldownsAfter(cooldowns, c, u, t, COMMAND_COOLDOWN_SECONDS)
    /\ UNCHANGED <<weather_cache, apikey, gwVars, opsVars>>
    /\ IF OnCooldown(cooldowns, c, u, t, COMMAND_COOLDOWN_SECONDS)
       THEN /\ sessions' = [sessions EXCEPT ![i] =
                   [IdleSession EXCEPT !.user = u, !.cmd = c, !.pc = "deny_reply",
                       !.remaining = Remaining(cooldowns, c, u, t, COMMAND_COOLDOWN_SECONDS)]]
            /\ lastAllowed' = lastAllowed
       ELSE /\ \E city \in CityArgs(c) :
                sessions' = [sessions EXCEPT ![i] =
                   HandlerEntry([IdleSession EXCEPT !.user = u, !.cmd = c, !.city = city],
                                t, weather_cache, apikey)]
            /\ lastAllowed' = [lastAllowed EXCEPT ![c] = (u :> t) @@ @]

\* The await of line 126 returns or raises; the wrapper catches nothing.
deny_reply(i, ok) ==
    LET s == sessions[i] IN
    /\ s.pc = "deny_reply"
    /\ sessions' = [sessions EXCEPT ![i] =
          IF ok THEN [Respond(s, "Please wait", TRUE) EXCEPT !.pc = "done"]
                ELSE on_app_command_error(s)]
    /\ UNCHANGED <<cooldowns, lastAllowed, clock, weather_cache, apikey, gwVars, opsVars>>

\* A failed send swallowed, and ping going on to its edit all the same.
handler_reply_swallow(i, ok) ==
    LET s == sessions[i] IN
    /\ s.pc = "reply"
    /\ sessions' = [sessions EXCEPT ![i] =
          IF ok
          THEN [Respond(s, s.msg.text, s.msg.ephemeral) EXCEPT
                   !.pc = IF s.cmd = "ping" THEN "edit" ELSE "done"]
          ELSE [s EXCEPT !.pc = IF s.cmd = "ping" THEN "edit" ELSE "done"]]
    /\ UNCHANGED <<cooldowns, lastAllowed, clock, weather_cache, apikey, gwVars, opsVars>>

\* A handler's await of interaction.response.send_message outside any try block
\* returns or raises (lines 152, 161, 199, 212, 223, 341, 351); ping goes on to
\* its edit (line 364).
handler_reply(i, ok) ==
    LET s == sessions[i] IN
    /\ s.pc = "reply"
    /\ sessions' = [sessions EXCEPT ![i] =
          IF ok
          THEN [Respond(s, s.msg.text, s.msg.ephemeral) EXCEPT
                   !.pc = IF s.cmd = "ping" THEN "edit" ELSE "done"]
          ELSE on_app_command_error(s)]
    /\ UNCHANGED <<cooldowns, lastAllowed, clock, weather_cache, apikey, gwVars, opsVars>>

\* ping's await of interaction.edit_original_response (line 364) returns or raises.
ping_edit(i, ok) ==
    LET s == sessions[i] IN
    /\ s.pc = "edit"
    /\ sessions' = [sessions EXCEPT ![i] =
          IF ok THEN [s EXCEPT !.edited = TRUE, !.pc = "done"]
                ELSE on_app_command_error(s)]
    /\ UNCHANGED <<cooldowns, lastAllowed, clock, weather_cache, apikey, gwVars, opsVars>>

\* weather's await of lines 230-231 ends with result r: the timeout expired, or
\* requests.get returned or raised; the handler runs on to the send it awaits
\* next (lines 233-266).
weather_lookup(i, r) ==
    LET s == sessions[i] IN
    /\ s.pc = "lookup"
    /\ weather_cache' = CacheAfter(weather_cache, s, r)
    /\ sessions' = [sessions EXCEPT ![i] =
          [s EXCEPT !.pc = ReplyAfter(s, r).pc, !.msg = ReplyAfter(s, r).msg,
                    !.latency = r.latency, !.outcome = Outcome(r)]]
    /\ UNCHANGED <<cooldowns, lastAllowed, clock, apikey, gwVars, opsVars>>

\* weather's send inside the try block (lines 254, 257, 260) returns or raises;
\* the exception is caught at line 264, which sends the generic message.
weather_try_reply(i, ok) ==
    LET s == sessions[i] IN
    /\ s.pc = "try_reply"
    /\ sessions' = [sessions EXCEPT ![i] =
          IF ok THEN [Respond(s, s.msg.text, s.msg.ephemeral) EXCEPT !.pc = "done"]
                ELSE [s EXCEPT !.pc = "except_reply",
                               !.msg = Msg(GenericErrorText, TRUE, "response")]]
    /\ UNCHANGED <<cooldowns, lastAllowed, clock, weather_cache, apikey, gwVars, opsVars>>

\* weather's send inside an except clause (lines 263, 266) returns or raises;
\* nothing in the handler catches the exception.
weather_except_reply(i, ok) ==
    LET s == sessions[i] IN
    /\ s.pc = "except_reply"
    /\ sessions' = [sessions EXCEPT ![i] =
          IF ok THEN [Respond(s, s.msg.text, s.msg.ephemeral) EXCEPT !.pc = "done"]
                ELSE on_app_command_error(s)]
    /\ UNCHANGED <<cooldowns, lastAllowed, clock, weather_cache, apikey, gwVars, opsVars>>

\* The error handler giving the user the cooldown back.
error_reply_rollback(i, ok) ==
    LET s == sessions[i] IN
    /\ s.pc \in {"err_followup", "err_reply"}
    /\ sessions' = [sessions EXCEPT ![i] =
          IF ~ok THEN [s EXCEPT !.pc = "done"]
          ELSE IF s.pc = "err_followup"
               THEN [s EXCEPT !.sent = Append(@, Msg("An error occurred", TRUE, "followup")),
                              !.pc = "done"]
               ELSE [Respond(s, "An error occurred", TRUE) EXCEPT !.pc = "done"]]
    /\ cooldowns' = [cooldowns EXCEPT ![s.cmd] =
                        [v \in DOMAIN @ \ {s.user} |-> @[v]]]
    /\ UNCHANGED <<lastAllowed, clock, weather_cache, apikey, gwVars, opsVars>>

\* The error handler's own send returns or raises (lines 442-447): a follow-up
\* when the reply was already sent, the initial reply otherwise; a failure is
\* logged and swallowed.
error_reply(i, ok) ==
    LET s == sessions[i] IN
    /\ s.pc \in {"err_followup", "err_reply"}
    /\ sessions' = [sessions EXCEPT ![i] =
          IF ~ok THEN [s EXCEPT !.pc = "done"]
          ELSE IF s.pc = "err_followup"
               THEN [s EXCEPT !.sent = Append(@, Msg("An error occurred", TRUE, "followup")),
                              !.pc = "done"]
               ELSE [Respond(s, "An error occurred", TRUE) EXCEPT !.pc = "done"]]
    /\ UNCHANGED <<cooldowns, lastAllowed, clock, weather_cache, apikey, gwVars, opsVars>>

----------------------------------------------------------------------------
(* Event loops, threads and the process *)

\* bot.loop, which bot.run runs on the main thread, and the loop start_console
\* creates (line 618).
Loops == {"bot_loop", "new_loop"}

Alive == exitCode = <<>>

\* Lines 623-661: the token is read, the console thread is started, the signal
\* handlers are installed and bot.run starts running the bot's loop.
\* get_token_from_file exits with 1 when token.txt cannot be read (line 112).
main(tokenOk) ==
    /\ Alive
    /\ mainPc = "start"
    /\ IF tokenOk
       THEN /\ mainPc' = "running"
            /\ consolePc' = "init"
            /\ loopRunning' = [loopRunning EXCEPT !["bot_loop"] = TRUE]
            /\ UNCHANGED exitCode
       ELSE /\ mainPc' = "exited"
            /\ exitCode' = <<1>>
            /\ UNCHANGED <<consolePc, loopRunning>>
    /\ UNCHANGED <<botVars, gwVars, is_shutting_down, botClosed, console_loop, loopTasks, guilds,
                   signalCount, closeScheduled, lastAccess, attempted, printed>>

\* bot.run returns once the connection is closed; the main thread runs off the
\* end of the script (lines 665-666) and the daemon console thread dies with it.
bot_run_returns ==
    /\ Alive
    /\ mainPc = "running"
    /\ botClosed
    /\ \A k \in 1..Len(loopTasks["bot_loop"]) : loopTasks["bot_loop"][k].kind # "shutdown_bot"
    /\ mainPc' = "exited"
    /\ exitCode' = <<0>>
    /\ loopRunning' = [loopRunning EXCEPT !["bot_loop"] = FALSE]
    /\ UNCHANGED <<botVars, gwVars, is_shutting_down, botClosed, consolePc, console_loop, loopTasks,
                   guilds, signalCount, closeScheduled, lastAccess, attempted, printed>>

\* asyncio.run_coroutine_threadsafe(coro, loop): the coroutine is handed to that
\* loop, which starts it when (and only when) it runs.
Submit(tasks, loop, task) == [tasks EXCEPT ![loop] = Append(@, task)]

----------------------------------------------------------------------------
(* Shutdown, lines 602-613 and 643-656 *)

ShutdownTask == [kind |-> "shutdown_bot"]

\* The handler without the test of line 645.
signal_handler_unguarded ==
    /\ Alive
    /\ mainPc = "running"
    /\ signalCount' = signalCount + 1
    /\ is_shutting_down' = TRUE
    /\ loopTasks' = Submit(loopTasks, "bot_loop", ShutdownTask)
    /\ closeScheduled' = Append(closeScheduled, "bot_loop")
    /\ UNCHANGED <<botVars, gwVars, mainPc, exitCode, botClosed, consolePc, console_loop,
                   loopRunning, guilds, lastAccess, attempted, printed>>

\* signal_handler, lines 643-653, run on the main thread for SIGINT and SIGTERM.
signal_handler ==
    /\ Alive
    /\ mainPc = "running"
    /\ signalCount' = signalCount + 1
    /\ IF is_shutting_down
       THEN \* sys.exit(0), line 647
            /\ mainPc' = "exited"
            /\ exitCode' = <<0>>
            /\ UNCHANGED <<is_shutting_down, loopTasks, closeScheduled>>
       ELSE /\ is_shutting_down' = TRUE
            /\ loopTasks' = Submit(loopTasks, "bot_loop", ShutdownTask)
            /\ closeScheduled' = Append(closeScheduled, "bot_loop")
            /\ UNCHANGED <<mainPc, exitCode>>
    /\ UNCHANGED <<botVars, gwVars, botClosed, consolePc, console_loop, loopRunning, guilds,
                   lastAccess, attempted, printed>>

Remove(seq, k) == SubSeq(seq, 1, k - 1) \o SubSeq(seq, k + 1, Len(seq))

\* The thread blocked in Future.result() (lines 555 and 593) goes on when the
\* coroutine it submitted has finished.
Resume(pc) == IF pc = "blocked" THEN "prompt" ELSE pc

\* shutdown_bot clearing the flag once the connection is closed.
shutdown_bot_resets(l, k, ok) ==
    /\ loopTasks' = [loopTasks EXCEPT ![l] = Remove(@, k)]
    /\ is_shutting_down' = ~ok
    /\ IF ok
       THEN /\ botClosed' = TRUE
            /\ UNCHANGED <<mainPc, exitCode>>
       ELSE /\ mainPc' = "exited"
            /\ exitCode' = <<1>>
            /\ UNCHANGED botClosed
    /\ UNCHANGED <<botVars, gwVars, consolePc, console_loop, loopRunning, guilds,
                   signalCount, closeScheduled, lastAccess, attempted, printed>>

\* shutdown_bot, lines 602-613, on loop l: bot.close() returns, or raises and the
\* coroutine calls sys.exit(1).
shutdown_bot(l, k, ok) ==
    /\ loopTasks' = [loopTasks EXCEPT ![l] = Remove(@, k)]
    /\ IF ok
       THEN /\ botClosed' = TRUE
            /\ UNCHANGED <<mainPc, exitCode>>
       ELSE /\ mainPc' = "exited"
            /\ exitCode' = <<1>>
            /\ UNCHANGED botClosed
    /\ UNCHANGED <<botVars, gwVars, is_shutting_down, consolePc, console_loop, loopRunning, guilds,
                   signalCount, closeScheduled, lastAccess, attempted, printed>>

----------------------------------------------------------------------------
(* Operator console, lines 467-621 *)

\* Channel ids the operator types: bot.get_channel finds the second one only.
UnknownChannel == "12345"
KnownChannel == "67890"

\* The console lines given to send: whether the quoting is balanced, and the
\* words shlex.split yields when it is.
SendLines ==
    { [balanced |-> FALSE, words |-> <<>>],
      [balanced |-> TRUE, words |-> <<>>],
      [balanced |-> TRUE, words |-> <<KnownChannel>>],
      [balanced |-> TRUE, words |-> <<"general", "hi">>],
      [balanced |-> TRUE, words |-> <<UnknownChannel, "hi">>],
      [balanced |-> TRUE, words |-> <<KnownChannel, "hi">>] }

\* int(channel_id) succeeds, line 539.
IsNumber(word) == word \in {UnknownChannel, KnownChannel}

BroadcastArgs == {"", "hello"}

SendTask(channel_id) == [kind |-> "send_message", channel_id |-> channel_id]

BroadcastTask ==
    [kind |-> "broadcast_message", idx |-> 1, success_count |-> 0, fail_count |-> 0]

\* start_console, lines 616-621: a new event loop is created and stored in
\* console.loop, then cmdloop reads commands; nothing runs the new loop.
start_console ==
    /\ Alive
    /\ consolePc = "init"
    /\ console_loop' = "new_loop"
    /\ consolePc' = "prompt"
    /\ UNCHANGED <<botVars, gwVars, mainPc, exitCode, is_shutting_down, botClosed, loopRunning,
                   loopTasks, guilds, signalCount, closeScheduled, lastAccess, attempted,
                   printed>>

\* What a console command leaves alone when it only reads and prints.
ConsoleReadOnly ==
    UNCHANGED <<botVars, gwVars, mainPc, exitCode, is_shutting_down, botClosed, consolePc,
                console_loop, loopRunning, loopTasks, guilds, signalCount, closeScheduled,
                attempted>>

\* do_status, lines 476-490, on the console thread.
do_status ==
    /\ Alive
    /\ consolePc = "prompt"
    /\ lastAccess' = <<"status", "console_thread">>
    /\ printed' = IF botClosed THEN <<"Bot is currently offline">> ELSE <<"Bot is online">>
    /\ ConsoleReadOnly

\* do_guilds, lines 492-505, on the console thread.
do_guilds ==
    /\ Alive
    /\ consolePc = "prompt"
    /\ lastAccess' = <<"guilds", "console_thread">>
    /\ printed' = IF botClosed THEN <<"Bot is offline">>
                  ELSE IF guilds = <<>> THEN <<"Bot is not in any guilds">>
                  ELSE <<"Bot is in guilds">>
    /\ ConsoleReadOnly

\* do_commands, lines 507-522, on the console thread.
do_commands ==
    /\ Alive
    /\ consolePc = "prompt"
    /\ lastAccess' = <<"commands", "console_thread">>
    /\ printed' = IF botClosed THEN <<"Bot is offline">> ELSE <<"Registered commands">>
    /\ ConsoleReadOnly

\* do_reload, lines 595-599, on the console thread.
do_reload ==
    /\ Alive
    /\ consolePc = "prompt"
    /\ lastAccess' = <<"reload", "console_thread">>
    /\ printed' = IF botClosed THEN <<"Bot is offline">> ELSE printed
    /\ ConsoleReadOnly

\* do_send, lines 524-555, on the console thread. shlex.split raises ValueError
\* on unbalanced quoting; nothing catches it and the console thread ends.
do_send(line) ==
    /\ Alive
    /\ consolePc = "prompt"
    /\ lastAccess' = <<"send", "console_thread">>
    /\ IF botClosed
       THEN /\ printed' = <<"Bot is offline">>
            /\ UNCHANGED <<consolePc, loopTasks>>
       ELSE IF ~line.balanced
       THEN /\ consolePc' = "dead"
            /\ UNCHANGED <<printed, loopTasks>>
       ELSE IF Len(line.words) < 2
       THEN /\ printed' = <<"Usage: send <channel_id> <message>">>
            /\ UNCHANGED <<consolePc, loopTasks>>
       ELSE IF ~IsNumber(line.words[1])
       THEN /\ printed' = <<"Channel ID must be a number">>
            /\ UNCHANGED <<consolePc, loopTasks>>
       ELSE /\ loopTasks' = Submit(loopTasks, console_loop, SendTask(line.words[1]))
            /\ consolePc' = "blocked"
            /\ UNCHANGED printed
    /\ UNCHANGED <<botVars, gwVars, mainPc, exitCode, is_shutting_down, botClosed, console_loop,
                   loopRunning, guilds, signalCount, closeScheduled, attempted>>

\* do_broadcast, lines 557-593, on the console thread.
do_broadcast(arg) ==
    /\ Alive
    /\ consolePc = "prompt"
    /\ lastAccess' = <<"broadcast", "console_thread">>
    /\ IF botClosed
       THEN /\ printed' = <<"Bot is offline">>
            /\ UNCHANGED <<consolePc, loopTasks>>
       ELSE IF arg = ""
       THEN /\ printed' = <<"Usage: broadcast <message>">>
            /\ UNCHANGED <<consolePc, loopTasks>>
       ELSE /\ loopTasks' = Submit(loopTasks, console_loop, BroadcastTask)
            /\ consolePc' = "blocked"
            /\ UNCHANGED printed
    /\ UNCHANGED <<botVars, gwVars, mainPc, exitCode, is_shutting_down, botClosed, console_loop,
                   loopRunning, guilds, signalCount, closeScheduled, attempted>>

\* send_message of do_send, lines 544-553, on loop l: the channel is looked up,
\* and channel.send returns or raises.
send_message(l, k, ok) ==
    LET task == loopTasks[l][k] IN
    /\ loopTasks' = [loopTasks EXCEPT ![l] = Remove(@, k)]
    /\ lastAccess' = <<"send", l>>
    /\ printed' = IF task.channel_id # KnownChannel THEN <<"Channel not found">>
                  ELSE IF ok THEN <<"Message sent">>
                  ELSE <<"Error sending message">>
    /\ consolePc' = Resume(consolePc)
    /\ UNCHANGED <<botVars, gwVars, mainPc, exitCode, is_shutting_down, botClosed, console_loop,
                   loopRunning, guilds, signalCount, closeScheduled, attempted>>

\* The channel lines 574-579 pick in guild g, as a position in g.text_channels
\* (0 for None): the system channel when the guild has one, else the first
\* channel where the bot may send.
SelectChannel(g) ==
    IF g.system_channel # 0
    THEN g.system_channel
    ELSE IF \E n \in 1..Len(g.text_channels) : g.text_channels[n]
         THEN CHOOSE n \in 1..Len(g.text_channels) :
                 /\ g.text_channels[n]
                 /\ \A m \in 1..(n - 1) : ~g.text_channels[m]
         ELSE 0

\* One pass of the loop body, lines 572-589, for guild g: "sent", "no_channel"
\* (line 585) or "error" (the except clause, line 587). channel.send raises
\* Forbidden where the bot may not send; fault stands for any other exception
\* raised inside the try block.
GuildOutcome(g, fault) ==
    IF fault THEN "error"
    ELSE IF SelectChannel(g) = 0 THEN "no_channel"
    ELSE IF g.text_channels[SelectChannel(g)] THEN "sent"
    ELSE "error"

\* The tally with the except clause not counting.
TallyAfterUncounted(task, outcome) ==
    [task EXCEPT !.idx = @ + 1,
                 !.success_count = IF outcome = "sent" THEN @ + 1 ELSE @,
                 !.fail_count = IF outcome = "no_channel" THEN @ + 1 ELSE @]

\* The coroutine's locals after one pass (lines 583, 586 and 589).
TallyAfter(task, outcome) ==
    [task EXCEPT !.idx = @ + 1,
                 !.success_count = IF outcome = "sent" THEN @ + 1 ELSE @,
                 !.fail_count = IF outcome # "sent" THEN @ + 1 ELSE @]

\* broadcast_message of do_broadcast, lines 567-591, on loop l: one guild per
\* step, then the tally is printed and the coroutine returns.
broadcast_message(l, k, fault) ==
    LET task == loopTasks[l][k] IN
    /\ lastAccess' = <<"broadcast", l>>
    /\ IF task.idx <= Len(guilds)
       THEN /\ loopTasks' = [loopTasks EXCEPT ![l][k] =
                   TallyAfter(task, GuildOutcome(guilds[task.idx], fault))]
            /\ attempted' = Append(IF task.idx = 1 THEN <<>> ELSE attempted, <<task.idx, fault>>)
            /\ UNCHANGED <<printed, consolePc>>
       ELSE /\ loopTasks' = [loopTasks EXCEPT ![l] = Remove(@, k)]
            /\ attempted' = IF task.idx = 1 THEN <<>> ELSE attempted
            /\ printed' = <<"Broadcast complete", task.success_count, task.fail_count>>
            /\ consolePc' = Resume(consolePc)
    /\ UNCHANGED <<botVars, gwVars, mainPc, exitCode, is_shutting_down, botClosed, console_loop,
                   loopRunning, guilds, signalCount, closeScheduled>>

\* An event loop that is being run takes one step of one of its coroutines.
run_loop(l, k, b) ==
    /\ Alive
    /\ loopRunning[l]
    /\ k \in 1..Len(loopTasks[l])
    /\ IF loopTasks[l][k].kind = "shutdown_bot" THEN shutdown_bot(l, k, b)
       ELSE IF loopTasks[l][k].kind = "send_message" THEN send_message(l, k, b)
       ELSE broadcast_message(l, k, b)

----------------------------------------------------------------------------
(* Gateway events, lines 403-464 *)

Scopes == {"global", "guild"}

\* on_ready up to its await, lines 404-411, for a ready event at clock reading t:
\* the start time is set and a global bot.tree.sync() is begun, on every event.
on_ready(t) ==
    /\ Alive
    /\ mainPc = "running"
    /\ ~botClosed
    /\ readyEvents < MaxReady
    /\ readyEvents' = readyEvents + 1
    /\ clock' = t
    /\ start_time' = <<t>>
    /\ syncing' = [syncing EXCEPT !["global"] = @ + 1]
    /\ UNCHANGED <<cooldowns, lastAllowed, sessions, weather_cache, apikey, syncLog, opsVars>>

\* on_guild_join up to its await, lines 449-456: a sync scoped to the new guild.
on_guild_join ==
    /\ Alive
    /\ mainPc = "running"
    /\ ~botClosed
    /\ Len(guilds) < MaxGuilds
    /\ syncing["guild"] + Len(SelectSeq(syncLog, LAMBDA e : e[1] = "guild")) < MaxGuilds
    /\ guilds' = Append(guilds, [text_channels |-> <<TRUE>>, system_channel |-> 1])
    /\ syncing' = [syncing EXCEPT !["guild"] = @ + 1]
    /\ UNCHANGED <<botVars, start_time, readyEvents, syncLog, mainPc, exitCode,
                   is_shutting_down, botClosed, consolePc, console_loop, loopRunning,
                   loopTasks, signalCount, closeScheduled, lastAccess, attempted, printed>>

\* on_guild_remove, lines 461-464: the guild is gone and a line is logged.
on_guild_remove ==
    /\ Alive
    /\ mainPc = "running"
    /\ ~botClosed
    /\ guilds # <<>>
    /\ guilds' = SubSeq(guilds, 1, Len(guilds) - 1)
    /\ UNCHANGED <<botVars, gwVars, mainPc, exitCode, is_shutting_down, botClosed, consolePc,
                   console_loop, loopRunning, loopTasks, signalCount, closeScheduled,
                   lastAccess, attempted, printed>>

\* bot.tree.sync returns or raises (lines 410-414 and 453-458): the result is
\* logged either way and the handler returns.
tree_sync_returns(scope, ok) ==
    /\ Alive
    /\ syncing[scope] > 0
    /\ syncing' = [syncing EXCEPT ![scope] = @ - 1]
    /\ syncLog' = Append(syncLog, <<scope, ok>>)
    /\ UNCHANGED <<botVars, start_time, readyEvents, opsVars>>

----------------------------------------------------------------------------
(* Specifications *)

\* Lists of guilds: every text channel is one where the bot may send (TRUE) or
\* may not, and the system channel is one of them or missing (0).
ChannelLists == UNION {[1..n -> BOOLEAN] : n \in 0..MaxChannels}
GuildSet ==
    UNION {{[text_channels |-> chs, system_channel |-> sc] : sc \in 0..Len(chs)} :
             chs \in ChannelLists}
GuildLists == UNION {[1..n -> GuildSet] : n \in 0..MaxGuilds}

\* What apikey.txt yields: nothing, or a key.
ApiKeys == {None, "key"}

\* No ready event was delivered yet.
GwInit ==
    /\ start_time = <<>>
    /\ readyEvents = 0
    /\ syncing = [scope \in Scopes |-> 0]
    /\ syncLog = <<>>

BotInitKey(keys) ==
    /\ cooldowns = [c \in AllCommands |-> <<>>]
    /\ lastAllowed = [c \in AllCommands |-> <<>>]
    /\ sessions = [i \in Slots |-> IdleSession]
    /\ clock = 0
    /\ weather_cache = <<>>
    /\ apikey \in keys
    /\ GwInit

BotInit == BotInitKey({"key"})

\* The process as the script starts.
OpsInit ==
    /\ mainPc = "start"
    /\ exitCode = <<>>
    /\ is_shutting_down = FALSE
    /\ botClosed = FALSE
    /\ consolePc = "off"
    /\ console_loop = None
    /\ loopRunning = [l \in Loops |-> FALSE]
    /\ loopTasks = [l \in Loops |-> <<>>]
    /\ guilds = <<[text_channels |-> <<TRUE>>, system_channel |-> 1]>>
    /\ signalCount = 0
    /\ closeScheduled = <<>>
    /\ lastAccess = <<"none", "none">>
    /\ attempted = <<>>
    /\ printed = <<>>

\* The bot connected and nothing typed or signalled yet.
OpsConnected ==
    /\ mainPc = "running"
    /\ exitCode = <<>>
    /\ is_shutting_down = FALSE
    /\ botClosed = FALSE
    /\ consolePc = "prompt"
    /\ console_loop = "new_loop"
    /\ loopRunning = [l \in Loops |-> l = "bot_loop"]
    /\ loopTasks = [l \in Loops |-> <<>>]
    /\ guilds = <<[text_channels |-> <<TRUE>>, system_channel |-> 1]>>
    /\ signalCount = 0
    /\ closeScheduled = <<>>
    /\ lastAccess = <<"none", "none">>
    /\ attempted = <<>>
    /\ printed = <<>>

Init == BotInit /\ OpsConnected

\* Interactions arrive at one of the clock readings times, from the users, for
\* the commands cmds, while a task slot is free; the gate, the replies sent
\* outside a try block and the error handler take their steps.
Dispatch(slots, users, times, cmds) ==
    \/ \E i \in slots, u \in users, c \in cmds, t \in times : wrapper(i, u, c, t)
    \/ \E i \in slots, ok \in BOOLEAN : deny_reply(i, ok)
    \/ \E i \in slots, ok \in BOOLEAN : handler_reply(i, ok)
    \/ \E i \in slots, ok \in BOOLEAN : error_reply(i, ok)

PingSteps(slots) == \E i \in slots, ok \in BOOLEAN : ping_edit(i, ok)

WeatherSteps(slots) ==
    \/ \E i \in slots, r \in LookupResults : weather_lookup(i, r)
    \/ \E i \in slots, ok \in BOOLEAN : weather_try_reply(i, ok)
    \/ \E i \in slots, ok \in BOOLEAN : weather_except_reply(i, ok)

\* pong and ping, at any time not before the previous clock reading.
Pipeline(slots, users, maxTime) ==
    \/ Dispatch(slots, users, clock..maxTime, Commands)
    \/ PingSteps(slots)

\* Several interactions in flight on the bot loop.
Next == Pipeline(Slots, {"u1"}, MaxDispatchTime)

Spec == Init /\ [][Next]_vars

\* The cooldown tracker over longer runs: two users, one interaction at a time.
NextCooldown == Pipeline({1}, Users, MaxTime)

SpecCooldown == Init /\ [][NextCooldown]_vars

\* The cooldown tracker with a clock that may step back between two readings.
NextSkew ==
    \/ Dispatch({1}, Users, 0..MaxTime, Commands)
    \/ PingSteps({1})

SpecSkew == Init /\ [][NextSkew]_vars

\* One interaction at a time for any of the handlers, every await returning or
\* raising.
NextSession ==
    \/ Dispatch({1}, {"u1"}, clock..MaxDispatchTime, AllCommands)
    \/ PingSteps({1})
    \/ WeatherSteps({1})

SpecSession == Init /\ [][NextSession]_vars

\* The weather handler over clock readings around the ends of the cache's
\* lifetime, with or without an API key.
WeatherTimes ==
    {t \in UNION {{k * CacheTTL - 1, k * CacheTTL, k * CacheTTL + 1} : k \in 0..MaxPeriods} : t >= 0}

InitWeather == BotInitKey(ApiKeys) /\ OpsConnected

NextWeather ==
    \/ Dispatch({1}, {"u1"}, {t \in WeatherTimes : t >= clock}, {"weather"})
    \/ WeatherSteps({1})

SpecWeather == InitWeather /\ [][NextWeather]_vars

\* Several weather invocations in flight on the bot loop, from two users, each
\* suspended in its request or in a send while the others run.
NextWeatherTasks ==
    \/ Dispatch(Slots, Users, clock..MaxDispatchTime, {"weather"})
    \/ WeatherSteps(Slots)

SpecWeatherTasks == Init /\ [][NextWeatherTasks]_vars

\* The bot loop keeps running its tasks, and every await on the network returns
\* or raises: the request to the weather service within the timeout of line 230.
FairSpecWeather ==
    /\ SpecWeather
    /\ WF_vars(WeatherSteps({1}))
    /\ WF_vars(\E ok \in BOOLEAN : handler_reply(1, ok))
    /\ WF_vars(\E ok \in BOOLEAN : deny_reply(1, ok))
    /\ WF_vars(\E ok \in BOOLEAN : error_reply(1, ok))

\* The gateway's events: ready events (again after every reconnect), guilds
\* joined and left, and the syncs they start.
NextGateway ==
    \/ \E t \in clock..MaxTime : on_ready(t)
    \/ on_guild_join
    \/ on_guild_remove
    \/ \E scope \in Scopes, ok \in BOOLEAN : tree_sync_returns(scope, ok)

SpecGateway == Init /\ [][NextGateway]_vars

\* The process from its start: the operator's console, the signals and the
\* loops.
InitConsole == BotInit /\ OpsInit

NextConsole ==
    \/ \E tokenOk \in BOOLEAN : main(tokenOk)
    \/ bot_run_returns
    \/ signal_handler
    \/ start_console
    \/ do_status
    \/ do_guilds
    \/ do_commands
    \/ do_reload
    \/ \E line \in SendLines : do_send(line)
    \/ \E arg \in BroadcastArgs : do_broadcast(arg)
    \/ \E l \in Loops : \E k \in 1..Len(loopTasks[l]), b \in BOOLEAN : run_loop(l, k, b)

SpecConsole == InitConsole /\ [][NextConsole]_vars

\* The bot loop keeps running the coroutines submitted to it, the console thread
\* gets to its prompt, and the main thread goes on when bot.run returns.
FairSpecConsole ==
    /\ SpecConsole
    /\ WF_vars(\E k \in 1..Len(loopTasks["bot_loop"]), b \in BOOLEAN : run_loop("bot_loop", k, b))
    /\ WF_vars(start_console)
    /\ WF_vars(bot_run_returns)

\* The broadcast coroutine run to its end on a running loop, over every list of
\* guilds, with the console thread waiting for it.
InitBroadcast ==
    /\ BotInit
    /\ mainPc = "running"
    /\ exitCode = <<>>
    /\ is_shutting_down = FALSE
    /\ botClosed = FALSE
    /\ consolePc = "blocked"
    /\ console_loop = "new_loop"
    /\ loopRunning = [l \in Loops |-> TRUE]
    /\ loopTasks = [l \in Loops |-> IF l = "new_loop" THEN <<BroadcastTask>> ELSE <<>>]
    /\ guilds \in GuildLists
    /\ signalCount = 0
    /\ closeScheduled = <<>>
    /\ lastAccess = <<"broadcast", "console_thread">>
    /\ attempted = <<>>
    /\ printed = <<>>

NextBroadcast == \E l \in Loops, b \in BOOLEAN : run_loop(l, 1, b)

SpecBroadcast == InitBroadcast /\ [][NextBroadcast]_vars

----------------------------------------------------------------------------
(* Cooldown tracker *)

\* Slot i was free and holds a newly gated invocation after the step.
Gated(i) ==
    /\ sessions[i].pc \in {"idle", "done"}
    /\ sessions'[i].pc \in {"deny_reply", "reply", "lookup"}

Denied(i) == sessions'[i].pc = "deny_reply"

\* C1: with clock readings that never decrease, an invocation of command c by
\* user u that arrives less than the window after the last invocation of (u, c)
\* the gate let through is denied with 0 < remaining <= window, and one that
\* arrives when the window has elapsed is let through.
CooldownWindow ==
    [][\A i \in Slots :
          LET u == sessions'[i].user
              c == sessions'[i].cmd
          IN  (Gated(i) /\ clock' >= clock /\ u \in DOMAIN lastAllowed[c]) =>
                 LET elapsed == clock' - lastAllowed[c][u] IN
                 /\ elapsed < COMMAND_COOLDOWN_SECONDS =>
                       /\ Denied(i)
                       /\ 0 < sessions'[i].remaining
                       /\ sessions'[i].remaining <= COMMAND_COOLDOWN_SECONDS
                 /\ elapsed >= COMMAND_COOLDOWN_SECONDS => ~Denied(i)
      ]_vars

\* A denied invocation one second after one the gate let through at 3.
CooldownWindowWitness ==
    \E i \in Slots :
        /\ sessions[i].pc = "deny_reply"
        /\ sessions[i].remaining = COMMAND_COOLDOWN_SECONDS - 1
        /\ clock = COMMAND_COOLDOWN_SECONDS + 1
        /\ lastAllowed[sessions[i].cmd][sessions[i].user] = COMMAND_COOLDOWN_SECONDS

\* C2: a denied check leaves the stored time of its (user, command) pair as it
\* was, and a check that lets the invocation through stores exactly the time it read.
CooldownRecord ==
    [][\A i \in Slots :
          LET u == sessions'[i].user
              c == sessions'[i].cmd
          IN  Gated(i) =>
                 IF Denied(i)
                 THEN /\ u \in DOMAIN cooldowns[c]
                      /\ u \in DOMAIN cooldowns'[c]
                      /\ cooldowns'[c][u] = cooldowns[c][u]
                 ELSE /\ u \in DOMAIN cooldowns'[c]
                      /\ cooldowns'[c][u] = clock'
      ]_vars

\* A denied invocation at 2 that left the entry at 0.
CooldownRecordWitness ==
    \E i \in Slots :
        /\ sessions[i].pc = "deny_reply"
        /\ clock = 2
        /\ cooldowns[sessions[i].cmd][sessions[i].user] = 0

\* C3: an invocation of command c by user u changes no entry but that of (u, c),
\* and whether it is denied depends on the entry of (u, c) alone.
CooldownKeyed ==
    [][\A i \in Slots :
          LET u == sessions'[i].user
              c == sessions'[i].cmd
          IN  Gated(i) =>
                 /\ \A d \in Commands, v \in Users :
                       <<v, d>> # <<u, c>> =>
                          /\ (v \in DOMAIN cooldowns'[d]) = (v \in DOMAIN cooldowns[d])
                          /\ v \in DOMAIN cooldowns[d] => cooldowns'[d][v] = cooldowns[d][v]
                 /\ Denied(i) =
                       (/\ u \in DOMAIN cooldowns[c]
                        /\ clock' - cooldowns[c][u] < COMMAND_COOLDOWN_SECONDS)
      ]_vars

\* u2 is let through on ping while u1's ping entry and u2's own pong entry are
\* both inside their windows.
CooldownKeyedWitness ==
    \E i \in Slots :
        /\ sessions[i].pc = "reply"
        /\ sessions[i].user = "u2"
        /\ sessions[i].cmd = "ping"
        /\ "u1" \in DOMAIN cooldowns["ping"]
        /\ clock - cooldowns["ping"]["u1"] < COMMAND_COOLDOWN_SECONDS
        /\ "u2" \in DOMAIN cooldowns["pong"]
        /\ clock - cooldowns["pong"]["u2"] < COMMAND_COOLDOWN_SECONDS
        /\ cooldowns["ping"]["u2"] = clock

----------------------------------------------------------------------------
(* Dispatcher *)

\* C4: every invocation whose task has ended produced exactly one user-visible
\* message and did not stay in Received.
DispatcherGuarantee ==
    \A i \in Slots :
        sessions[i].pc = "done" =>
            /\ Len(sessions[i].sent) = 1
            /\ sessions[i].responded

----------------------------------------------------------------------------
(* Operator console bridge *)

\* C5: every console action that touches bot state (status, guilds, send,
\* broadcast) reads and writes it on the bot's own event loop, never on the
\* console thread or on another loop.
ConsoleOnBotLoop ==
    lastAccess[1] \in {"status", "guilds", "send", "broadcast"} =>
        lastAccess[2] = "bot_loop"

\* C6: while the bot loop runs, a console thread blocked on a submitted send or
\* broadcast eventually goes on (or the process has ended).
ConsoleBridgeLive ==
    (consolePc = "blocked" /\ loopRunning["bot_loop"]) ~> (consolePc = "prompt" \/ ~Alive)

----------------------------------------------------------------------------
(* Shutdown *)

\* C7: the first termination signal sets the flag and submits shutdown_bot once,
\* to the bot loop; any later signal ends the process with code 0 and submits
\* nothing.
ShutdownIdempotent ==
    /\ is_shutting_down = (signalCount >= 1)
    /\ closeScheduled = IF signalCount >= 1 THEN <<"bot_loop">> ELSE <<>>
    /\ signalCount >= 2 => exitCode = <<0>>

\* A second signal arrived while the close submitted by the first was pending.
ShutdownIdempotentWitness ==
    /\ signalCount = 2
    /\ exitCode = <<0>>
    /\ closeScheduled = <<"bot_loop">>
    /\ ~botClosed

\* C8: the shutdown flag starts false and, once true, stays true.
ShutdownLatch ==
    /\ ~is_shutting_down
    /\ [][is_shutting_down => is_shutting_down']_vars

\* The flag is still set after the close it started has completed and the
\* process has ended.
ShutdownLatchWitness ==
    /\ is_shutting_down
    /\ botClosed
    /\ exitCode = <<0>>
    /\ signalCount = 1

----------------------------------------------------------------------------
(* Broadcast *)

\* The broadcast has printed its tally.
BroadcastDone == Len(printed) = 3

\* The joined guilds with no channel in which the bot may send.
Unsendable ==
    {n \in 1..Len(guilds) :
        \A m \in 1..Len(guilds[n].text_channels) : ~guilds[n].text_channels[m]}

----------------------------------------------------------------------------
(* Weather cache *)

\* Slot i was free and holds after the step an invocation that entered the
\* weather handler with an API key configured.
WeatherEntered(i) ==
    /\ sessions[i].pc \in {"idle", "done"}
    /\ sessions'[i].cmd = "weather"
    /\ sessions'[i].pc \in {"reply", "lookup"}
    /\ apikey # None

\* The spellings of the city stored under key.
LetterCases(key) == IF key = "london" THEN {"London", "london"} ELSE {"Paris", "paris"}

\* C11: a put stores the value with the time the handler read, and while that
\* entry <<v, t0>> is the last put on its key, a get at time t returns v when
\* t - t0 < ttl, and nothing when t - t0 >= ttl, in which case the handler makes
\* a new request to the weather service.
CacheRoundTrip ==
    [][\A i \in Slots :
          /\ (sessions[i].pc = "lookup" /\ weather_cache' # weather_cache) =>
                \E key \in DOMAIN weather_cache' :
                    /\ sessions[i].city \in LetterCases(key)
                    /\ weather_cache'[key] = <<sessions'[i].msg.text, sessions[i].now>>
          /\ WeatherEntered(i) =>
                \A key \in DOMAIN weather_cache :
                    sessions'[i].city \in LetterCases(key) =>
                       LET v == weather_cache[key][1]
                           t0 == weather_cache[key][2]
                       IN  /\ clock' - t0 < CacheTTL =>
                                 /\ sessions'[i].pc = "reply"
                                 /\ sessions'[i].msg.text = v
                           /\ clock' - t0 >= CacheTTL =>
                                 /\ sessions'[i].pc = "lookup"
                                 /\ sessions'[i].calls = 1
      ]_vars

\* A get exactly ttl after the put found nothing and started a new request.
CacheRoundTripWitness ==
    \E i \in Slots : \E key \in DOMAIN weather_cache :
        /\ sessions[i].pc = "lookup"
        /\ sessions[i].city \in LetterCases(key)
        /\ sessions[i].now - weather_cache[key][2] = CacheTTL

NoNegativeCaching ==
    [][weather_cache' # weather_cache =>
          \E i \in Slots :
              /\ sessions[i].pc = "lookup"
              /\ sessions'[i].latency < LookupTimeout
              /\ sessions'[i].outcome = "200"
              /\ sessions'[i].msg.text \in
                    {WeatherMessage(name, d) : name \in {"London", "Paris"}, d \in Descriptions}
              /\ \A key \in DOMAIN weather_cache :
                    sessions[i].city \notin LetterCases(key) =>
                       /\ key \in DOMAIN weather_cache'
                       /\ weather_cache'[key] = weather_cache[key]
      ]_vars

\* A request for a city whose entry had expired ended with 404, and the entry is
\* still the old one.
NoNegativeCachingWitness ==
    \E i \in Slots : \E key \in DOMAIN weather_cache :
        /\ sessions[i].pc = "try_reply"
        /\ sessions[i].outcome = "404"
        /\ sessions[i].city \in LetterCases(key)
        /\ sessions[i].now - weather_cache[key][2] >= CacheTTL

\* The state of the session of an invocation: Failed once an exception has left
\* the handler, else Edited, Responded or Received by what was sent.
State(s) ==
    IF s.failed THEN "Failed"
    ELSE IF s.edited THEN "Edited"
    ELSE IF s.responded THEN "Responded"
    ELSE "Received"

\* C19: a request to the weather service that has not ended within the timeout
\* of 10 seconds is given up; the handler then sends the timeout message, which
\* is neither the generic error nor the city-not-found message, and the session
\* leaves Received: it is Responded with that message, or Failed when the send
\* raised.
TimeoutReply ==
    /\ [][\A i \in Slots :
             /\ (sessions[i].pc = "lookup" /\ sessions'[i].pc # "lookup"
                    /\ sessions'[i].latency >= 10) =>
                   /\ sessions'[i].pc = "except_reply"
                   /\ sessions'[i].msg = Msg(TimeoutText, TRUE, "response")
                   /\ TimeoutText \notin {GenericErrorText, CityNotFoundText}
                   /\ sessions'[i].calls = 1
             /\ (sessions[i].pc = "except_reply" /\ sessions[i].latency >= 10) =>
                   \/ /\ State(sessions'[i]) = "Responded"
                      /\ sessions'[i].sent = <<Msg(TimeoutText, TRUE, "response")>>
                   \/ State(sessions'[i]) = "Failed"
       ]_vars
    /\ \A i \in {1} :
          /\ (sessions[i].pc = "lookup") ~> (sessions[i].pc # "lookup")
          /\ (sessions[i].pc = "except_reply" /\ sessions[i].latency >= 10)
                ~> (State(sessions[i]) # "Received")

\* A timed-out request answered with the timeout message.
TimeoutReplyWitness ==
    \E i \in Slots :
        /\ sessions[i].pc = "done"
        /\ sessions[i].outcome = "timeout"
        /\ sessions[i].latency > LookupTimeout
        /\ sessions[i].sent = <<Msg(TimeoutText, TRUE, "response")>>

----------------------------------------------------------------------------
(* Interaction sessions *)

\* Session i goes on with the same invocation in the step.
SameInvocation(i) == sessions[i].pc \notin {"idle", "done"}

\* C13 as stated: the state of a session moves only along Received ->
\* Responded -> Edited or Received -> Failed, an edit is never issued before
\* the initial reply, and a session whose task has ended is Responded, Edited or
\* Failed.
SessionForwardStated ==
    /\ [][\A i \in Slots :
             SameInvocation(i) =>
                \/ State(sessions'[i]) = State(sessions[i])
                \/ <<State(sessions[i]), State(sessions'[i])>> \in
                      {<<"Received", "Responded">>, <<"Responded", "Edited">>,
                       <<"Received", "Failed">>}
       ]_vars
    /\ [](\A i \in Slots :
             /\ sessions[i].pc = "edit" => sessions[i].responded
             /\ sessions[i].edited => sessions[i].responded
             /\ sessions[i].pc = "done" =>
                   State(sessions[i]) \in {"Responded", "Edited", "Failed"})

\* C13, amended: the state of a session moves only along Received -> Responded
\* -> Edited, or to Failed from Received or from Responded; it never moves
\* back, an edit is never issued before the initial reply, and a session whose
\* task has ended is Responded, Edited or Failed.
SessionForward ==
    /\ [][\A i \in Slots :
             SameInvocation(i) =>
                \/ State(sessions'[i]) = State(sessions[i])
                \/ <<State(sessions[i]), State(sessions'[i])>> \in
                      {<<"Received", "Responded">>, <<"Responded", "Edited">>,
                       <<"Received", "Failed">>, <<"Responded", "Failed">>}
       ]_vars
    /\ [](\A i \in Slots :
             /\ sessions[i].pc = "edit" => sessions[i].responded
             /\ sessions[i].edited => sessions[i].responded
             /\ sessions[i].pc = "done" =>
                   State(sessions[i]) \in {"Responded", "Edited", "Failed"})

\* ping's edit raised after its reply was sent: the session went from Responded
\* to Failed.
SessionForwardWitness ==
    \E i \in Slots :
        /\ sessions[i].cmd = "ping"
        /\ sessions[i].pc = "err_followup"
        /\ sessions[i].responded
        /\ State(sessions[i]) = "Failed"

\* The messages of session s sent as its initial reply.
InitialReplies(s) == SelectSeq(s.sent, LAMBDA m : m.via = "response")

\* C14: once the initial reply of a session has been sent, no task of that
\* session awaits another interaction.response.send_message: not the wrapper,
\* not a handler, not an except clause, not the error handler, which sends a
\* follow-up instead; so at most one initial reply is ever sent.
InitialReplyOnce ==
    \A i \in Slots :
        /\ sessions[i].pc \in {"deny_reply", "reply", "try_reply", "except_reply", "err_reply"}
              => ~sessions[i].responded
        /\ Len(InitialReplies(sessions[i])) <= 1
        /\ sessions[i].responded = (Len(InitialReplies(sessions[i])) = 1)

\* The error handler, entered after the reply was sent, is about to send a
\* follow-up.
InitialReplyOnceWitness ==
    \E i \in Slots :
        /\ sessions[i].pc = "err_followup"
        /\ Len(InitialReplies(sessions[i])) = 1

\* C17: the time stored for a (user, command) pair is never removed and never
\* decreases, whatever the order of the clock readings.
CooldownMonotone ==
    [][\A c \in Commands, u \in Users :
          u \in DOMAIN cooldowns[c] =>
             /\ u \in DOMAIN cooldowns'[c]
             /\ cooldowns'[c][u] >= cooldowns[c][u]
      ]_vars

\* An invocation that read a clock value below the stored one was denied and the
\* stored value stayed.
CooldownMonotoneWitness ==
    \E i \in Slots :
        /\ sessions[i].pc = "deny_reply"
        /\ clock < cooldowns[sessions[i].cmd][sessions[i].user]
        /\ sessions[i].remaining > COMMAND_COOLDOWN_SECONDS

----------------------------------------------------------------------------
(* Operator console commands *)

\* C15: a console send whose channel id does not resolve is reported as channel
\* not found (or the process has ended).
ConsoleSendUnknown ==
    (\E l \in Loops : \E k \in 1..Len(loopTasks[l]) :
        /\ loopTasks[l][k].kind = "send_message"
        /\ loopTasks[l][k].channel_id = UnknownChannel)
    ~> (printed = <<"Channel not found">> \/ ~Alive)

\* The send lines do_send is to refuse: fewer than two arguments, a channel id
\* that is no number, unbalanced quoting.
MalformedSend ==
    {line \in SendLines :
        \/ ~line.balanced
        \/ Len(line.words) < 2
        \/ ~IsNumber(line.words[1])}

\* C16: while the bot is online, every malformed console line prints a usage
\* message, submits nothing, changes no other state and leaves the console at
\* its prompt.
ConsoleMalformed ==
    [][((\E line \in MalformedSend : do_send(line)) \/ do_broadcast("")) =>
          (~botClosed =>
              /\ printed' \in {<<"Usage: send <channel_id> <message>">>,
                               <<"Channel ID must be a number">>,
                               <<"Usage: broadcast <message>">>}
              /\ loopTasks' = loopTasks
              /\ consolePc' = "prompt"
              /\ UNCHANGED <<botVars, gwVars, guilds, botClosed, is_shutting_down>>)
      ]_vars

----------------------------------------------------------------------------
(* Startup *)

\* C20: over any sequence of ready events of one run, the global sync is begun
\* exactly once and the start time, once set, is not set again.
GlobalSyncOnce ==
    /\ [](readyEvents >= 1 =>
             syncing["global"]
               + Len(SelectSeq(syncLog, LAMBDA e : e[1] = "global")) = 1)
    /\ [][start_time # <<>> => start_time' = start_time]_vars

----------------------------------------------------------------------------
(* Interleaved tasks *)

\* C21: whatever the interleaving of the tasks on the bot loop, an invocation
\* of command c by user u is let through only when the window has elapsed since
\* the last one of (u, c) that was let through; so of the invocations of one
\* (u, c) that arrive within one window, in flight together or not, at most one
\* enters its handler.
CooldownAtomic ==
    /\ [][\A i \in Slots :
             LET u == sessions'[i].user
                 c == sessions'[i].cmd
             IN  (Gated(i) /\ ~Denied(i) /\ u \in DOMAIN lastAllowed[c]) =>
                    clock' - lastAllowed[c][u] >= COMMAND_COOLDOWN_SECONDS
       ]_vars
    /\ [](MaxDispatchTime < COMMAND_COOLDOWN_SECONDS =>
             \A i, j \in Slots :
                 (/\ i # j
                  /\ sessions[i].logged
                  /\ sessions[j].logged
                  /\ sessions[i].user = sessions[j].user)
                 => sessions[i].cmd # sessions[j].cmd)

\* Two invocations of ping by one user are in flight together: the first is
\* suspended in its reply, the second was denied.
CooldownAtomicWitness ==
    \E i, j \in Slots :
        /\ sessions[i].cmd = "ping"
        /\ sessions[j].cmd = "ping"
        /\ sessions[i].user = sessions[j].user
        /\ sessions[i].pc = "reply"
        /\ sessions[i].logged
        /\ sessions[j].pc = "deny_reply"
        /\ ~sessions[j].logged

\* C22: no two requests to the weather service for one normalized city are in
\* flight together, and the time stored with an entry is not older than the
\* moment the entry is written.
WeatherSingleFlight ==
    /\ [](\A i, j \in Slots :
             (/\ i # j
              /\ sessions[i].pc = "lookup"
              /\ sessions[j].pc = "lookup")
             => \A key \in {"london", "paris"} :
                   ~(/\ sessions[i].city \in LetterCases(key)
                     /\ sessions[j].city \in LetterCases(key)))
    /\ [][\A key \in DOMAIN weather_cache' :
             (key \notin DOMAIN weather_cache \/ weather_cache'[key] # weather_cache[key])
                => weather_cache'[key][2] >= clock
       ]_vars

----------------------------------------------------------------------------
(* The gate and the handler *)

\* The reply of the wrapper to a denied invocation.
WaitReply == Msg("Please wait", TRUE, "response")

\* C23: a denied invocation gets the remaining wait of line 125 and does not
\* enter its handler: it writes no command log entry, reads and writes no cache
\* entry and makes no request; the one reply its task sends is the ephemeral
\* wait message, and when that send raises only the error handler's ephemeral
\* message can follow.
GateBeforeHandler ==
    /\ [][\A i \in Slots :
             LET u == sessions'[i].user
                 c == sessions'[i].cmd
             IN  /\ (Gated(i) /\ Denied(i)) =>
                       /\ sessions'[i].remaining =
                             COMMAND_COOLDOWN_SECONDS - (clock' - cooldowns[c][u])
                       /\ sessions'[i].remaining > 0
                       /\ sessions'[i].sent = <<>>
                       /\ weather_cache' = weather_cache
                 /\ (sessions[i].pc = "deny_reply" /\ sessions'[i] # sessions[i]) =>
                       /\ weather_cache' = weather_cache
                       /\ \/ /\ sessions'[i].pc = "done"
                             /\ sessions'[i].sent = <<WaitReply>>
                          \/ /\ sessions'[i].pc = "err_reply"
                             /\ sessions'[i].sent = <<>>
       ]_vars
    /\ [](\A i \in Slots :
             sessions[i].remaining > 0 =>
                /\ ~sessions[i].logged
                /\ ~sessions[i].cache_read
                /\ sessions[i].calls = 0
                /\ sessions[i].pc \in {"deny_reply", "err_reply", "done"}
                /\ Len(sessions[i].sent) <= 1
                /\ \A n \in 1..Len(sessions[i].sent) : sessions[i].sent[n].ephemeral
                /\ (sessions[i].pc = "done" /\ ~sessions[i].failed) =>
                      sessions[i].sent = <<WaitReply>>)

\* A denied weather invocation has ended with its one wait message while the
\* cache holds an entry it did not read.
GateBeforeHandlerWitness ==
    \E i \in Slots :
        /\ sessions[i].cmd = "weather"
        /\ sessions[i].pc = "done"
        /\ sessions[i].remaining > 0
        /\ sessions[i].sent = <<WaitReply>>
        /\ weather_cache # <<>>

\* C24: the entry of (user, command) is written in the step in which the gate
\* lets the invocation through, no later step of that invocation changes or
\* removes it, whether the handler replies, fails or times out, and the next
\* invocation of the pair inside the window is denied.
CooldownKept ==
    /\ [][\A i \in Slots :
             LET u == sessions'[i].user
                 c == sessions'[i].cmd
             IN  /\ (Gated(i) /\ ~Denied(i)) =>
                       /\ u \in DOMAIN cooldowns'[c]
                       /\ cooldowns'[c][u] = clock'
                 /\ SameInvocation(i) => cooldowns' = cooldowns
                 /\ (Gated(i) /\ u \in DOMAIN lastAllowed[c]
                        /\ clock' - lastAllowed[c][u] < COMMAND_COOLDOWN_SECONDS) =>
                       Denied(i)
       ]_vars
    /\ [](cooldowns = lastAllowed)

\* A weather invocation whose request timed out and whose reply raised has
\* ended, and its entry is the time it was let through.
CooldownKeptWitness ==
    \E i \in Slots :
        /\ sessions[i].cmd = "weather"
        /\ sessions[i].pc = "done"
        /\ sessions[i].outcome = "timeout"
        /\ sessions[i].failed
        /\ cooldowns["weather"][sessions[i].user] = sessions[i].now

====
